---- MODULE Spec2Model ----
(***************************************************************************)
(* Model of lib/commands/network.js: the connectivity and location         *)
(* commands of the Android driver, run one after another against a device  *)
(* reached through the device bridge (adb) and, optionally, a bootstrap.   *)
(*                                                                         *)
(* A command is one action.  The command's body is a chain of operators    *)
(* over an execution context (ctx): the device, the bootstrap flag, the    *)
(* log of every device-bridge call issued so far, the value returned by    *)
(* the last call and the completion status.  A call whose position in the  *)
(* log is in ctx.faults is rejected by the device bridge.                  *)
(***************************************************************************)
EXTENDS Integers, Sequences, FiniteSets, TLC

VARIABLES
    dev,        \* the device: [air, wifi, data] booleans, geo strings, gps provider
    api,        \* adb.getApiLevel()
    emulator,   \* this.isEmulator()
    bootstrap,  \* TRUE iff this.bootstrap is attached
    flag,       \* this.bootstrap.ignoreUnexpectedShutdown
    last,       \* record of the command that ran last
    prev,       \* the result of the command before it, when last repeats it
    inv         \* where each of the overlapping command invocations stands

vars == <<dev, api, emulator, bootstrap, flag, last, prev, inv>>

----------------------------------------------------------------------------
(* Bounds of the model *)

\* The longest `services` array given to mobileGetConnectivity.
MaxListLen == 3

----------------------------------------------------------------------------
(* Constants of the module *)

AIRPLANE_MODE_MASK == 1
WIFI_MASK == 2
DATA_MASK == 4
WIFI_KEY_NAME == "wifi"
DATA_KEY_NAME == "data"
AIRPLANE_MODE_KEY_NAME == "airplaneMode"

AllMask == AIRPLANE_MODE_MASK + WIFI_MASK + DATA_MASK
Services == {WIFI_KEY_NAME, DATA_KEY_NAME, AIRPLANE_MODE_KEY_NAME}

\* JavaScript values that flow through the connectivity commands
Undefined == "undefined"
JsBool(b) == IF b THEN "true" ELSE "false"
JsVals == {"true", "false", Undefined}
\* Boolean(x) for x in JsVals
Boolean(x) == x = "true"
\* _.isUndefined
isUndefined(x) == x = Undefined

None == "none"

----------------------------------------------------------------------------
(* Bit operations on the 3-bit connection mask *)

Bit(n, m) == (n \div m) % 2 = 1

BitAnd(a, b) ==
    (IF Bit(a, 1) /\ Bit(b, 1) THEN 1 ELSE 0)
  + (IF Bit(a, 2) /\ Bit(b, 2) THEN 2 ELSE 0)
  + (IF Bit(a, 4) /\ Bit(b, 4) THEN 4 ELSE 0)

BitOr(a, b) ==
    (IF Bit(a, 1) \/ Bit(b, 1) THEN 1 ELSE 0)
  + (IF Bit(a, 2) \/ Bit(b, 2) THEN 2 ELSE 0)
  + (IF Bit(a, 4) \/ Bit(b, 4) THEN 4 ELSE 0)

\* ~a, on the bits a connection mask has
BitNot(a) == AllMask - BitAnd(a, AllMask)

----------------------------------------------------------------------------
(* The device bridge *)

\* What a successful call leaves on the device.
AdbEffect(d, op, arg) ==
    CASE op = "setAirplaneMode" -> [d EXCEPT !.air = arg]
      [] op = "setWifiState"    -> [d EXCEPT !.wifi = arg]
      [] op = "setDataState"    -> [d EXCEPT !.data = arg]
      [] op = "setWifiAndData"  ->
            IF arg.key = WIFI_KEY_NAME THEN [d EXCEPT !.wifi = arg.val]
                                       ELSE [d EXCEPT !.data = arg.val]
      [] op = "setGeoLocation"  -> [d EXCEPT !.geo = arg]
      [] op = "toggleGPSLocationProvider" -> [d EXCEPT !.gps = arg]
      [] OTHER -> d

\* What a successful call answers.
AdbReturn(d, apiLevel, op) ==
    CASE op = "isAirplaneModeOn" -> d.air
      [] op = "isWifiOn"         -> d.wifi
      [] op = "isDataOn"         -> d.data
      [] op = "getApiLevel"      -> apiLevel
      [] op = "getGeoLocation"   -> d.geo
      [] op = "getLocationProviders" ->
            IF d.gps THEN <<"gps", "network">> ELSE <<"network">>
      [] OTHER -> None

\* One call entered in the log: issued whatever happened to earlier calls
\* (a call made without awaiting the ones before it).
AdbIssue(ctx, op, arg) ==
    LET idx    == Len(ctx.calls) + 1
        failed == idx \in ctx.faults
        entry  == [op |-> op, arg |-> arg, air |-> ctx.dev.air,
                   flag |-> ctx.flag, failed |-> failed]
    IN  IF failed
        THEN [ctx EXCEPT !.calls = Append(@, entry),
                         !.st = IF @ = "ok" THEN "adbError" ELSE @]
        ELSE [ctx EXCEPT !.calls = Append(@, entry),
                         !.dev = AdbEffect(@, op, arg),
                         !.ret = AdbReturn(ctx.dev, ctx.api, op)]

\* `await this.adb.op(arg)`: not reached once the command has thrown.
Adb(ctx, op, arg) ==
    IF ctx.st # "ok" THEN ctx ELSE AdbIssue(ctx, op, arg)

\* `return v` / `throw new errors.X()`
Return(ctx, v) == IF ctx.st = "ok" THEN [ctx EXCEPT !.value = v] ELSE ctx
Throw(ctx, e) == IF ctx.st = "ok" THEN [ctx EXCEPT !.st = e] ELSE ctx

\* An assignment to this.bootstrap.ignoreUnexpectedShutdown, kept in the log
SetFlag(ctx, v) ==
    [ctx EXCEPT !.flag = v,
                !.calls = Append(@, [op |-> "ignoreUnexpectedShutdown", arg |-> v,
                                     air |-> ctx.dev.air, flag |-> v,
                                     failed |-> FALSE])]

----------------------------------------------------------------------------
(* State readers *)

\* commands.isWifiOn
isWifiOn(ctx) == Adb(ctx, "isWifiOn", None)

\* getNetworkConnection without the airplane-mode short cut: Wi-Fi and data
\* are always queried and merged.
getNetworkConnection_NoShortCut(ctx) ==
    LET c1         == Adb(ctx, "isAirplaneModeOn", None)
        connection == IF c1.ret THEN AIRPLANE_MODE_MASK ELSE 0
        c2         == isWifiOn(c1)
        conn2      == BitOr(connection, IF c2.ret THEN WIFI_MASK ELSE 0)
        c3         == Adb(c2, "isDataOn", None)
        conn3      == BitOr(conn2, IF c3.ret THEN DATA_MASK ELSE 0)
    IN  IF c1.st # "ok" THEN c1
        ELSE IF c2.st # "ok" THEN c2
        ELSE Return(c3, conn3)

\* commands.getNetworkConnection
getNetworkConnection(ctx) ==
    LET c1             == Adb(ctx, "isAirplaneModeOn", None)
        airplaneModeOn == c1.ret
        connection     == IF airplaneModeOn THEN AIRPLANE_MODE_MASK ELSE 0
    IN  IF c1.st # "ok" THEN c1
        ELSE IF ~airplaneModeOn
        THEN LET c2     == isWifiOn(c1)
                 wifiOn == c2.ret
                 conn2  == BitOr(connection, IF wifiOn THEN WIFI_MASK ELSE 0)
                 c3     == Adb(c2, "isDataOn", None)
                 dataOn == c3.ret
                 conn3  == BitOr(conn2, IF dataOn THEN DATA_MASK ELSE 0)
             IN  IF c2.st # "ok" THEN c2 ELSE Return(c3, conn3)
        ELSE Return(c1, connection)

\* services.includes(k), services a sequence
Includes(services, k) == \E i \in 1..Len(services) : services[i] = k

\* The `services` array of mobileGetConnectivity after defaulting and wrapping.
\* opts.kind: "omitted" (no services option), "single" (one name, not in an
\* array: opts.services[1] is the name), "list" (an array of names).
ServicesOf(opts) ==
    CASE opts.kind = "omitted" -> <<WIFI_KEY_NAME, DATA_KEY_NAME, AIRPLANE_MODE_KEY_NAME>>
      [] opts.kind = "single"  -> <<opts.services[1]>>
      [] OTHER                 -> opts.services

\* One entry of statePromises: B.resolve(services.includes(k) ? undefined : query()).
\* The answer is [ctx, val]: the context after the (possible) query and the
\* value the promise resolves to.
StatePromise(ctx, services, k, op) ==
    IF Includes(services, k)
    THEN [ctx |-> ctx, val |-> Undefined]
    ELSE LET c == AdbIssue(ctx, op, None)
         IN  [ctx |-> c, val |-> IF c.st = "ok" THEN JsBool(c.ret) ELSE Undefined]

\* commands.mobileGetConnectivity
mobileGetConnectivity(ctx, opts) ==
    LET services == ServicesOf(opts)
        pw == StatePromise(ctx, services, WIFI_KEY_NAME, "isWifiOn")
        pd == StatePromise(pw.ctx, services, DATA_KEY_NAME, "isDataOn")
        pa == StatePromise(pd.ctx, services, AIRPLANE_MODE_KEY_NAME, "isAirplaneModeOn")
        statePromises == [k \in Services |->
                            CASE k = WIFI_KEY_NAME -> pw.val
                              [] k = DATA_KEY_NAME -> pd.val
                              [] OTHER             -> pa.val]
    IN  IF ctx.st # "ok" THEN ctx
        ELSE Return(pa.ctx,
                    [k \in {services[i] : i \in 1..Len(services)} |-> statePromises[k]])

----------------------------------------------------------------------------
(* The disconnect-safe wrapper *)

\* The closures handed to wrapBootstrapDisconnect.

\* async () => { await this.adb.setAirplaneMode(v); }
setAirplaneModeClosure(ctx, w) ==
    Adb(ctx, "setAirplaneMode", w.val)

\* the broadcast made up to API level 30, one level too many
broadcastAirplaneModeClosure_UpTo30(ctx, w) ==
    LET c1 == Adb(ctx, "getApiLevel", None)
    IN  IF c1.st = "ok" /\ c1.ret <= 30
        THEN Adb(c1, "broadcastAirplaneMode", w.val)
        ELSE c1

\* async () => { if (await this.adb.getApiLevel() < 30) { await this.adb.broadcastAirplaneMode(v); } }
broadcastAirplaneModeClosure(ctx, w) ==
    LET c1 == Adb(ctx, "getApiLevel", None)
    IN  IF c1.st = "ok" /\ c1.ret < 30
        THEN Adb(c1, "broadcastAirplaneMode", w.val)
        ELSE c1

\* the Wi-Fi and data closure without the airplane-mode test before the data write
wifiAndDataClosure_NoAirplaneTest(ctx, w) ==
    LET c1 == IF w.shouldEnableWifi # w.isWiFiEnabled
              THEN Adb(ctx, "setWifiState", w.shouldEnableWifi)
              ELSE ctx
    IN  IF w.shouldEnableDataConnection = w.isDataEnabled THEN c1
        ELSE Adb(c1, "setDataState", w.shouldEnableDataConnection)

\* the Wi-Fi and data closure writing the current Wi-Fi state back
wifiAndDataClosure_WritesCurrentWifi(ctx, w) ==
    LET c1 == IF w.shouldEnableWifi # w.isWiFiEnabled
              THEN Adb(ctx, "setWifiState", w.isWiFiEnabled)
              ELSE ctx
    IN  IF w.shouldEnableAirplaneMode THEN c1
        ELSE IF w.shouldEnableDataConnection = w.isDataEnabled THEN c1
        ELSE Adb(c1, "setDataState", w.shouldEnableDataConnection)

\* the Wi-Fi and data closure of setNetworkConnection
wifiAndDataClosure(ctx, w) ==
    LET c1 == IF w.shouldEnableWifi # w.isWiFiEnabled
              THEN Adb(ctx, "setWifiState", w.shouldEnableWifi)
              ELSE ctx
    IN  IF w.shouldEnableAirplaneMode THEN c1
        ELSE IF w.shouldEnableDataConnection = w.isDataEnabled THEN c1
        ELSE Adb(c1, "setDataState", w.shouldEnableDataConnection)

\* async () => { await this.adb.setWifiAndData({data}, ...) } and its wifi twin
setWifiAndDataClosure(ctx, w) ==
    Adb(ctx, "setWifiAndData", [key |-> w.key, val |-> w.val])

\* helpers.doKey: B.delay(2000), then the key event
doKey(ctx, key) == Adb(ctx, "keyevent", key)

\* async () => { await this.doKey(KeyCode.CENTER); }
doKeyClosure(ctx, w) == doKey(ctx, w.key)

\* wrapped(), for the closure w names
RunWrapped(ctx, w) ==
    CASE w.kind = "setAirplaneMode"       -> setAirplaneModeClosure(ctx, w)
      [] w.kind = "broadcastAirplaneMode" -> broadcastAirplaneModeClosure(ctx, w)
      [] w.kind = "wifiAndDataState"      -> wifiAndDataClosure(ctx, w)
      [] w.kind = "setWifiAndData"        -> setWifiAndDataClosure(ctx, w)
      [] w.kind = "doKey"                 -> doKeyClosure(ctx, w)
      [] OTHER -> ctx

\* without `finally`: the flag is cleared on the successful path only
wrapBootstrapDisconnect_NoFinally(ctx, w) ==
    IF ctx.st # "ok" THEN ctx
    ELSE IF ~ctx.boot THEN RunWrapped(ctx, w)
    ELSE LET c1 == SetFlag(ctx, TRUE)
             c2 == RunWrapped(c1, w)
             c3 == Adb(c2, "restart", None)
             c4 == Adb(c3, "bootstrap.start", None)
         IN  IF c4.st = "ok" THEN SetFlag(c4, FALSE) ELSE c4

\* the restart made whether or not the action succeeded
wrapBootstrapDisconnect_AlwaysRestart(ctx, w) ==
    IF ctx.st # "ok" THEN ctx
    ELSE IF ~ctx.boot THEN RunWrapped(ctx, w)
    ELSE LET c1 == SetFlag(ctx, TRUE)
             c2 == RunWrapped(c1, w)
             c3 == AdbIssue(c2, "restart", None)
             c4 == Adb(c3, "bootstrap.start", None)
         IN  SetFlag(c4, FALSE)

\* helpers.wrapBootstrapDisconnect
wrapBootstrapDisconnect(ctx, w) ==
    IF ctx.st # "ok" THEN ctx
    ELSE IF ~ctx.boot THEN RunWrapped(ctx, w)
    ELSE LET c1 == SetFlag(ctx, TRUE)
             c2 == RunWrapped(c1, w)
             c3 == Adb(c2, "restart", None)
             c4 == Adb(c3, "bootstrap.start", None)
         IN  SetFlag(c4, FALSE)

----------------------------------------------------------------------------
(* State writers *)

\* commands.setWifiState
setWifiState(ctx, wifi) == Adb(ctx, "setWifiState", wifi)

\* The closure mobileSetConnectivity pushes for airplane mode.  getApiLevel()
\* is compared without being awaited: a pending promise is not a number and
\* `promise < 30` is false, so the broadcast is not made.
AirplaneModeSetter(ctx, airplaneMode) ==
    LET c1 == Adb(ctx, "setAirplaneMode", Boolean(airplaneMode))
    IN  Adb(c1, "getApiLevel", None)

\* B.all(setters): waits for the promises among the setters.  An element that
\* is not a promise is passed through as a value; a function among the setters
\* is not called.
BAll(ctx, setters) == ctx

\* _.every([wifi, data, airplaneMode], _.isNull)
NoneProvided_isNull(opts) ==
    opts.wifi = "null" /\ opts.data = "null" /\ opts.airplaneMode = "null"

\* _.every([wifi, data, airplaneMode], _.isUndefined)
NoneProvided(opts) ==
    isUndefined(opts.wifi) /\ isUndefined(opts.data) /\ isUndefined(opts.airplaneMode)

\* commands.mobileSetConnectivity; opts = [wifi, data, airplaneMode], each a JsVal
mobileSetConnectivity(ctx, opts) ==
    LET wifi         == opts.wifi
        data         == opts.data
        airplaneMode == opts.airplaneMode
        services ==
            (IF isUndefined(wifi) THEN <<>> ELSE <<WIFI_KEY_NAME>>)
            \o (IF isUndefined(data) THEN <<>> ELSE <<DATA_KEY_NAME>>)
            \o (IF isUndefined(airplaneMode) THEN <<>> ELSE <<AIRPLANE_MODE_KEY_NAME>>)
        c1 == mobileGetConnectivity(ctx, [kind |-> "list", services |-> services])
        currentState == c1.value
        \* the wifi and data setters are promises of calls already made
        wifiDiffers == ~isUndefined(wifi)
                       /\ currentState[WIFI_KEY_NAME] # JsBool(Boolean(wifi))
        dataDiffers == ~isUndefined(data)
                       /\ currentState[DATA_KEY_NAME] # JsBool(Boolean(data))
        airplaneModeDiffers ==
                       ~isUndefined(airplaneMode)
                       /\ currentState[AIRPLANE_MODE_KEY_NAME] # JsBool(Boolean(airplaneMode))
        \* the wifi and data setters are promises of calls already made
        c2 == IF wifiDiffers THEN AdbIssue(c1, "setWifiState", Boolean(wifi)) ELSE c1
        c3 == IF dataDiffers THEN AdbIssue(c2, "setDataState", Boolean(data)) ELSE c2
        \* the airplane-mode setter is the function itself
        setters ==
            (IF wifiDiffers THEN <<"promise">> ELSE <<>>)
            \o (IF dataDiffers THEN <<"promise">> ELSE <<>>)
            \o (IF airplaneModeDiffers THEN <<"function">> ELSE <<>>)
    IN  IF ctx.st # "ok" THEN ctx
        ELSE IF NoneProvided(opts)
        THEN Throw(ctx, "InvalidArgumentError")
        ELSE IF c1.st # "ok" THEN c1
        ELSE IF setters # <<>> THEN Return(BAll(c3, setters), Undefined)
        ELSE Return(c3, Undefined)

\* the start-of-call mask returned as it was read
EarlyReturnMask_Stale(airplaneModeOn, currentState) == currentState

\* the two returns exchanged
EarlyReturnMask_Exchanged(airplaneModeOn, currentState) ==
    IF airplaneModeOn
    THEN BitAnd(BitNot(AIRPLANE_MODE_MASK), currentState)
    ELSE BitOr(AIRPLANE_MODE_MASK, currentState)

\* if (await this.adb.isAirplaneModeOn()) { return AIRPLANE_MODE_MASK | currentState; }
\* return ~AIRPLANE_MODE_MASK & currentState;
EarlyReturnMask(airplaneModeOn, currentState) ==
    IF airplaneModeOn
    THEN BitOr(AIRPLANE_MODE_MASK, currentState)
    ELSE BitAnd(BitNot(AIRPLANE_MODE_MASK), currentState)

\* commands.setNetworkConnection
setNetworkConnection(ctx, type) ==
    LET shouldEnableAirplaneMode   == BitAnd(type, AIRPLANE_MODE_MASK) # 0
        shouldEnableWifi           == BitAnd(type, WIFI_MASK) # 0
        shouldEnableDataConnection == BitAnd(type, DATA_MASK) # 0
        c0 == getNetworkConnection(ctx)
        currentState == c0.value
        isAirplaneModeEnabled == BitAnd(currentState, AIRPLANE_MODE_MASK) # 0
        isWiFiEnabled         == BitAnd(currentState, WIFI_MASK) # 0
        isDataEnabled         == BitAnd(currentState, DATA_MASK) # 0
        c1 == IF shouldEnableAirplaneMode # isAirplaneModeEnabled
              THEN wrapBootstrapDisconnect(
                     wrapBootstrapDisconnect(c0,
                        [kind |-> "setAirplaneMode", val |-> shouldEnableAirplaneMode]),
                     [kind |-> "broadcastAirplaneMode", val |-> shouldEnableAirplaneMode])
              ELSE c0
        c2 == Adb(c1, "isAirplaneModeOn", None)
        c3 == wrapBootstrapDisconnect(c1,
                 [kind |-> "wifiAndDataState",
                  shouldEnableWifi |-> shouldEnableWifi,
                  isWiFiEnabled |-> isWiFiEnabled,
                  shouldEnableAirplaneMode |-> shouldEnableAirplaneMode,
                  shouldEnableDataConnection |-> shouldEnableDataConnection,
                  isDataEnabled |-> isDataEnabled])
    IN  IF c0.st # "ok" THEN c0
        ELSE IF c1.st # "ok" THEN c1
        ELSE IF shouldEnableWifi = isWiFiEnabled
                /\ shouldEnableDataConnection = isDataEnabled
        THEN IF c2.st # "ok" THEN c2
             ELSE Return(c2, EarlyReturnMask(c2.ret, currentState))
        ELSE getNetworkConnection(c3)

\* commands.toggleData
toggleData(ctx) ==
    LET c1   == Adb(ctx, "isDataOn", None)
        data == ~c1.ret
    IN  IF c1.st # "ok" THEN c1
        ELSE Return(wrapBootstrapDisconnect(c1,
                [kind |-> "setWifiAndData", key |-> DATA_KEY_NAME, val |-> data]),
                Undefined)

\* toggleWiFi without the inversion of what was read
toggleWiFi_NoInversion(ctx) ==
    LET c1   == Adb(ctx, "isWifiOn", None)
        wifi == c1.ret
    IN  IF c1.st # "ok" THEN c1
        ELSE Return(wrapBootstrapDisconnect(c1,
                [kind |-> "setWifiAndData", key |-> WIFI_KEY_NAME, val |-> wifi]),
                Undefined)

\* commands.toggleWiFi
toggleWiFi(ctx) ==
    LET c1   == Adb(ctx, "isWifiOn", None)
        wifi == ~c1.ret
    IN  IF c1.st # "ok" THEN c1
        ELSE Return(wrapBootstrapDisconnect(c1,
                [kind |-> "setWifiAndData", key |-> WIFI_KEY_NAME, val |-> wifi]),
                Undefined)

\* commands.toggleFlightMode
toggleFlightMode(ctx) ==
    LET c1         == Adb(ctx, "isAirplaneModeOn", None)
        flightMode == ~c1.ret
    IN  IF c1.st # "ok" THEN c1
        ELSE Return(wrapBootstrapDisconnect(
                      wrapBootstrapDisconnect(c1,
                         [kind |-> "setAirplaneMode", val |-> flightMode]),
                      [kind |-> "broadcastAirplaneMode", val |-> flightMode]),
                    Undefined)

----------------------------------------------------------------------------
(* Geolocation *)

\* A string is a sequence of characters.  A number is
\* (-1)^neg * mant * 10^(-exp), or NaN.
Digits == <<"0", "1", "2", "3", "4", "5", "6", "7", "8", "9">>
IsDigit(c) == \E i \in 1..Len(Digits) : Digits[i] = c
DigitVal(c) == (CHOOSE i \in 1..Len(Digits) : Digits[i] = c) - 1

NaN == [nan |-> TRUE, neg |-> FALSE, mant |-> 0, exp |-> 0]
Num(neg, mant, exp) == [nan |-> FALSE, neg |-> neg, mant |-> mant, exp |-> exp]

\* Number.MIN_VALUE, 5e-324
GEO_EPSILON == Num(FALSE, 5, 324)

\* first index at or after i that holds no white space
RECURSIVE SkipWhiteSpace(_, _)
SkipWhiteSpace(s, i) ==
    IF i <= Len(s) /\ s[i] = " " THEN SkipWhiteSpace(s, i + 1) ELSE i

\* first index at or after i that holds no digit
RECURSIVE SkipDigits(_, _)
SkipDigits(s, i) ==
    IF i <= Len(s) /\ IsDigit(s[i]) THEN SkipDigits(s, i + 1) ELSE i

\* value of the digits s[i..j-1] appended to the decimal number acc
RECURSIVE DigitsValue(_, _, _, _)
DigitsValue(s, i, j, acc) ==
    IF i >= j THEN acc ELSE DigitsValue(s, i + 1, j, acc * 10 + DigitVal(s[i]))

\* the same number without trailing zeros in its fraction
RECURSIVE Normalize(_)
Normalize(n) ==
    IF n.exp > 0 /\ n.mant % 10 = 0
    THEN Normalize([n EXCEPT !.mant = @ \div 10, !.exp = @ - 1])
    ELSE n

\* parseFloat(s): the longest prefix of s, after white space, that is a
\* signed decimal literal (digits, optional fraction); NaN when there is none.
parseFloat(s) ==
    LET i0      == SkipWhiteSpace(s, 1)
        hasSign == i0 <= Len(s) /\ s[i0] \in {"-", "+"}
        neg     == hasSign /\ s[i0] = "-"
        i1      == IF hasSign THEN i0 + 1 ELSE i0
        i2      == SkipDigits(s, i1)
        hasDot  == i2 <= Len(s) /\ s[i2] = "."
        i3      == IF hasDot THEN SkipDigits(s, i2 + 1) ELSE i2
        nInt    == i2 - i1
        nFrac   == IF hasDot THEN i3 - (i2 + 1) ELSE 0
        mant    == DigitsValue(s, i2 + 1, i3, DigitsValue(s, i1, i2, 0))
    IN  IF nInt + nFrac = 0 THEN NaN
        ELSE Normalize(Num(neg, mant, nFrac))

\* ToBoolean of a number: NaN, +0 and -0 are falsy
Truthy(n) == ~n.nan /\ n.mant # 0

\* the sentinel for NaN only
OrEpsilon_OnlyNaN(n) == IF n.nan THEN GEO_EPSILON ELSE n

\* `parseFloat(x) || GEO_EPSILON`
OrEpsilon(n) == IF Truthy(n) THEN n ELSE GEO_EPSILON

\* commands.getGeoLocation
getGeoLocation(ctx) ==
    LET c1 == Adb(ctx, "getGeoLocation", None)
        g  == c1.ret
    IN  IF c1.st # "ok" THEN c1
        ELSE Return(c1, [latitude  |-> OrEpsilon(parseFloat(g.latitude)),
                         longitude |-> OrEpsilon(parseFloat(g.longitude)),
                         altitude  |-> OrEpsilon(parseFloat(g.altitude))])

\* setGeoLocation without the try/catch around the read-back
setGeoLocation_NoCatch(ctx, location) ==
    getGeoLocation(Adb(ctx, "setGeoLocation", location))

\* commands.setGeoLocation
setGeoLocation(ctx, location) ==
    LET c1 == Adb(ctx, "setGeoLocation", location)
        c2 == getGeoLocation(c1)
    IN  IF c1.st # "ok" THEN c1
        ELSE IF c2.st # "ok"
        THEN [c2 EXCEPT !.st = "ok",
                        !.value = [latitude  |-> GEO_EPSILON,
                                   longitude |-> GEO_EPSILON,
                                   altitude  |-> GEO_EPSILON]]
        ELSE c2

\* commands.mobileRefreshGpsCache
mobileRefreshGpsCache(ctx, timeoutMs) ==
    Return(Adb(ctx, "refreshGeoLocationCache", timeoutMs), Undefined)

----------------------------------------------------------------------------
(* Location services *)

KeyCode_UP == 19
KeyCode_DOWN == 20
KeyCode_RIGHT == 22
KeyCode_CENTER == 23

\* for (let key of preKeySeq) { await this.doKey(key); }
RECURSIVE DoKeys(_, _, _)
DoKeys(ctx, seq, i) ==
    IF i > Len(seq) THEN ctx ELSE DoKeys(doKey(ctx, seq[i]), seq, i + 1)

\* a catch that also forgets what failed before the block
Swallow_AlsoEarlier(ctx, c) == [c EXCEPT !.st = "ok"]

\* try { ... } catch (ign) {}: what the block did, its failure forgotten
Swallow(ctx, c) == IF ctx.st = "ok" /\ c.st # "ok" THEN [c EXCEPT !.st = "ok"] ELSE c

\* the pop-up handling of toggleSetting, inside the try block
PopUpBlock(ctx) ==
    LET c1 == Adb(ctx, "waitForNotActivity", None)
        c2 == doKey(c1, KeyCode_RIGHT)
        c3 == doKey(c2, KeyCode_CENTER)
    IN  Adb(c3, "waitForNotActivity", None)

\* a null key sequence: no key code is negative
NullKeySeq == <<-1>>

\* helpers.toggleSetting
toggleSetting(ctx, setting, preKeySeq) ==
    LET seq == IF preKeySeq = NullKeySeq
               THEN <<KeyCode_UP, KeyCode_UP, KeyCode_DOWN>>
               ELSE preKeySeq
        c1 == Adb(ctx, "openSettingsActivity", setting)
        c2 == DoKeys(c1, seq, 1)
        c3 == Adb(c2, "getFocusedPackageAndActivity", None)
        c4 == wrapBootstrapDisconnect(c3, [kind |-> "doKey", key |-> KeyCode_CENTER])
        c5 == Swallow(c4, PopUpBlock(c4))
    IN  Return(Adb(c5, "back", None), Undefined)

\* providers.indexOf(p) !== -1
HasProvider(providers, p) == \E i \in 1..Len(providers) : providers[i] = p

\* `api > 14`: key navigation one API level too early
HasLocationSettingsSequence_Above14(apiLevel) == apiLevel > 14

\* `if (api > 15)`: the API levels whose settings screen has a key sequence
HasLocationSettingsSequence(apiLevel) == apiLevel > 15

\* commands.toggleLocationServices
toggleLocationServices(ctx) ==
    LET c1 == Adb(ctx, "getApiLevel", None)
        apiLevel == c1.ret
        \* on an emulator
        c2 == Adb(c1, "getLocationProviders", None)
        isGpsEnabled == HasProvider(c2.ret, "gps")
        c3 == Adb(c2, "toggleGPSLocationProvider", ~isGpsEnabled)
        \* on a real device
        seq == IF apiLevel = 16 THEN <<KeyCode_UP, KeyCode_UP, KeyCode_DOWN>>
               ELSE IF apiLevel < 28 THEN <<KeyCode_RIGHT, KeyCode_RIGHT, KeyCode_UP>>
               ELSE <<KeyCode_RIGHT>>
        c4 == IF apiLevel = 16 THEN c1 ELSE Adb(c1, "keyevent", KeyCode_UP)
    IN  IF c1.st # "ok" THEN c1
        ELSE IF ctx.emu
        THEN IF c2.st # "ok" THEN c2 ELSE Return(c3, Undefined)
        ELSE IF HasLocationSettingsSequence(apiLevel)
        THEN toggleSetting(c4, "LOCATION_SOURCE_SETTINGS", seq)
        ELSE Throw(c1, "NotYetImplementedError")

----------------------------------------------------------------------------
(* Inputs *)

\* The device bridge rejects at most one call of a command: a command stops at
\* its first rejected call unless it catches the failure.  n is the length of
\* the command's log when nothing is rejected; no longer log exists, so a
\* position past n selects no call.
FaultChoices(n) == {{}} \cup {{i} : i \in 1..n}

\* toggleSetting catches the failures of its pop-up handling and goes on to
\* one more call, so two calls of a command can be rejected there.  A catch
\* abandons the rest of its block: the call after a rejected one is the next
\* entry of the log, and the second rejected call is that one or none.
FaultPairChoices(n) ==
    FaultChoices(n) \cup {{i, i + 1} : i \in 1..(n - 1)}

ApiLevels == {29, 30}
\* the API levels toggleLocationServices tells apart
LocationApiLevels == {14, 15, 16, 17, 27, 28, 30}
ConnectionTypes == 0..AllMask

\* arrays of service names, repetitions included
ServiceLists == UNION {[1..n -> Services] : n \in 0..MaxListLen}

GetConnectivityOpts ==
    {[kind |-> "omitted", services |-> <<>>]}
    \cup {[kind |-> "single", services |-> <<a>>] : a \in Services}
    \cup {[kind |-> "list", services |-> l] : l \in ServiceLists}

SetConnectivityOpts == [wifi : JsVals, data : JsVals, airplaneMode : JsVals]

\* what the device reports for its position
GeoStrings == {<<"0">>, <<"1", ".", "5">>, <<"-", "2">>, <<"x">>}
Locations == [latitude : GeoStrings, longitude : GeoStrings, altitude : GeoStrings]
NoLocation == [latitude |-> <<"0">>, longitude |-> <<"0">>, altitude |-> <<"0">>]

----------------------------------------------------------------------------
(* The state machine: one action per command *)

NoCommand ==
    [name |-> "none", arg |-> None, pre |-> None, calls |-> <<>>,
     st |-> "ok", value |-> None]

\* the connection mask of a device whose three states are all read
MaskOf(d) ==
    (IF d.air THEN AIRPLANE_MODE_MASK ELSE 0)
  + (IF d.wifi THEN WIFI_MASK ELSE 0)
  + (IF d.data THEN DATA_MASK ELSE 0)

\* What is kept of the command before the last one, when both commands are
\* the same successful setNetworkConnection(type) or the same successful
\* toggle: its result, the airplane mode it started in and the mask of the
\* device it started on; nothing otherwise.
Toggles == {"toggleData", "toggleWiFi", "toggleFlightMode"}
NoRepeat == [repeated |-> FALSE, value |-> 0, air |-> FALSE, first |-> 0]
Repeat(l, name, arg, c) ==
    IF name \in {"setNetworkConnection"} \cup Toggles /\ l.name = name
       /\ l.st = "ok" /\ c.st = "ok" /\ l.arg = arg
    THEN [repeated |-> TRUE,
          value |-> IF name \in Toggles THEN 0 ELSE l.value,
          air |-> l.pre.air,
          first |-> MaskOf(l.pre)]
    ELSE NoRepeat

\* Command invocations that can be in progress at once: each stands at one of
\* its suspension points, or is idle.
Invocations == {1, 2}
IdleInvocation == [pc |-> "idle", cmd |-> "none", val |-> FALSE, overlapped |-> FALSE]
NoInvocations == [i \in Invocations |-> IdleInvocation]

\* the context a command starts in
Begin(faults) ==
    [dev |-> dev, api |-> api, emu |-> emulator, boot |-> bootstrap, flag |-> flag,
     calls |-> <<>>, ret |-> None, value |-> Undefined, st |-> "ok", faults |-> faults]

\* the state a command leaves
Finish(name, arg, c) ==
    /\ dev' = c.dev
    /\ flag' = c.flag
    /\ last' = [name |-> name, arg |-> arg, pre |-> dev, calls |-> c.calls,
                st |-> c.st, value |-> IF c.st = "ok" THEN c.value ELSE None]
    /\ prev' = Repeat(last, name, arg, c)
    /\ UNCHANGED <<api, emulator, bootstrap, inv>>

GetNetworkConnection ==
    \E f \in FaultChoices(Len(getNetworkConnection(Begin({})).calls)) :
        Finish("getNetworkConnection", None, getNetworkConnection(Begin(f)))

MobileGetConnectivity ==
    \E opts \in GetConnectivityOpts :
        \E f \in FaultChoices(Len(mobileGetConnectivity(Begin({}), opts).calls)) :
            Finish("mobileGetConnectivity", opts, mobileGetConnectivity(Begin(f), opts))

MobileSetConnectivity ==
    \E opts \in SetConnectivityOpts :
        \E f \in FaultChoices(Len(mobileSetConnectivity(Begin({}), opts).calls)) :
            Finish("mobileSetConnectivity", opts, mobileSetConnectivity(Begin(f), opts))

SetNetworkConnection ==
    \E type \in ConnectionTypes :
        \E f \in FaultChoices(Len(setNetworkConnection(Begin({}), type).calls)) :
            Finish("setNetworkConnection", type, setNetworkConnection(Begin(f), type))

ToggleData ==
    \E f \in FaultChoices(Len(toggleData(Begin({})).calls)) :
        Finish("toggleData", None, toggleData(Begin(f)))

ToggleWiFi ==
    \E f \in FaultChoices(Len(toggleWiFi(Begin({})).calls)) :
        Finish("toggleWiFi", None, toggleWiFi(Begin(f)))

ToggleFlightMode ==
    \E f \in FaultChoices(Len(toggleFlightMode(Begin({})).calls)) :
        Finish("toggleFlightMode", None, toggleFlightMode(Begin(f)))

GetGeoLocation ==
    \E f \in FaultChoices(Len(getGeoLocation(Begin({})).calls)) :
        Finish("getGeoLocation", None, getGeoLocation(Begin(f)))

SetGeoLocation ==
    \E location \in Locations :
        \E f \in FaultChoices(Len(setGeoLocation(Begin({}), location).calls)) :
            Finish("setGeoLocation", location, setGeoLocation(Begin(f), location))

MobileRefreshGpsCache ==
    \E timeoutMs \in {Undefined} :
        \E f \in FaultChoices(Len(mobileRefreshGpsCache(Begin({}), timeoutMs).calls)) :
            Finish("mobileRefreshGpsCache", timeoutMs,
                   mobileRefreshGpsCache(Begin(f), timeoutMs))

ToggleLocationServices ==
    \E f \in FaultPairChoices(Len(toggleLocationServices(Begin({})).calls)) :
        Finish("toggleLocationServices", None, toggleLocationServices(Begin(f)))

\* The connectivity commands, on any device
Init ==
    /\ dev \in [air : BOOLEAN, wifi : BOOLEAN, data : BOOLEAN,
                geo : {NoLocation}, gps : {TRUE}]
    /\ api \in ApiLevels
    /\ emulator = TRUE
    /\ bootstrap \in BOOLEAN
    /\ flag = FALSE
    /\ last = NoCommand
    /\ prev = NoRepeat
    /\ inv = NoInvocations

\* mobileGetConnectivity and mobileSetConnectivity
Next ==
    \/ MobileGetConnectivity
    \/ MobileSetConnectivity

Spec == Init /\ [][Next]_vars

\* getNetworkConnection, setNetworkConnection and the toggles
NextNet ==
    \/ GetNetworkConnection
    \/ SetNetworkConnection
    \/ ToggleData
    \/ ToggleWiFi
    \/ ToggleFlightMode

SpecNet == Init /\ [][NextNet]_vars

\* The geolocation commands, on a device at any position
InitGeo ==
    /\ dev \in [air : {FALSE}, wifi : {TRUE}, data : {TRUE},
                geo : Locations, gps : {TRUE}]
    /\ api = 30
    /\ emulator = TRUE
    /\ bootstrap = FALSE
    /\ flag = FALSE
    /\ last = NoCommand
    /\ prev = NoRepeat
    /\ inv = NoInvocations

NextGeo ==
    \/ GetGeoLocation
    \/ SetGeoLocation
    \/ MobileRefreshGpsCache

SpecGeo == InitGeo /\ [][NextGeo]_vars

\* toggleLocationServices, on emulators and real devices of every API level
InitLoc ==
    /\ dev \in [air : {FALSE}, wifi : {TRUE}, data : {TRUE},
                geo : {NoLocation}, gps : BOOLEAN]
    /\ api \in LocationApiLevels
    /\ emulator \in BOOLEAN
    /\ bootstrap \in BOOLEAN
    /\ flag = FALSE
    /\ last = NoCommand
    /\ prev = NoRepeat
    /\ inv = NoInvocations

NextLoc == ToggleLocationServices

SpecLoc == InitLoc /\ [][NextLoc]_vars

\* Every command of the module, each run once from any state the device and
\* the driver can be in: what a command does and returns depends on nothing
\* that earlier commands leave behind but the device.
InitAll ==
    /\ dev \in [air : BOOLEAN, wifi : BOOLEAN, data : BOOLEAN,
                geo : {NoLocation}, gps : BOOLEAN]
    /\ api \in {16, 27, 30}
    /\ emulator \in BOOLEAN
    /\ bootstrap \in BOOLEAN
    /\ flag = FALSE
    /\ last = NoCommand
    /\ prev = NoRepeat
    /\ inv = NoInvocations

\* no command has run yet
FirstCommand == last.name = NoCommand.name

NextAll ==
    \/ (FirstCommand /\ GetNetworkConnection)
    \/ (FirstCommand /\ SetNetworkConnection)
    \/ (FirstCommand /\ ToggleData)
    \/ (FirstCommand /\ ToggleWiFi)
    \/ (FirstCommand /\ ToggleFlightMode)
    \/ (FirstCommand /\ MobileGetConnectivity)
    \/ (FirstCommand /\ MobileSetConnectivity)
    \/ (FirstCommand /\ GetGeoLocation)
    \/ (FirstCommand /\ SetGeoLocation)
    \/ (FirstCommand /\ MobileRefreshGpsCache)
    \/ (FirstCommand /\ ToggleLocationServices)

SpecAll == InitAll /\ [][NextAll]_vars

----------------------------------------------------------------------------
(* Reading the record of the last command *)

Ok == last.st = "ok"
Calls(op) == {i \in 1..Len(last.calls) : last.calls[i].op = op}
Issued(op) == Calls(op) # {}
WriteOps == {"setAirplaneMode", "broadcastAirplaneMode", "setWifiState",
             "setDataState", "setWifiAndData"}
NoWrites == \A i \in 1..Len(last.calls) : last.calls[i].op \notin WriteOps

\* the device's value for a service, and the query and the write of a service
DevValue(d, k) ==
    CASE k = WIFI_KEY_NAME -> d.wifi
      [] k = DATA_KEY_NAME -> d.data
      [] OTHER             -> d.air
QueryOp(k) ==
    CASE k = WIFI_KEY_NAME -> "isWifiOn"
      [] k = DATA_KEY_NAME -> "isDataOn"
      [] OTHER             -> "isAirplaneModeOn"
WriteOp(k) ==
    CASE k = WIFI_KEY_NAME -> "setWifiState"
      [] k = DATA_KEY_NAME -> "setDataState"
      [] OTHER             -> "setAirplaneMode"
Requested(opts) == LET l == ServicesOf(opts) IN {l[i] : i \in 1..Len(l)}

----------------------------------------------------------------------------
(* toggleData and toggleWiFi step by step: invocations that overlap *)

\* An invocation gives way to the others at each await.  Its steps are the
\* returns of the calls it awaits: the state query, the wrapped write, the
\* restart and the bootstrap start.  What runs between two awaits is one step.
OverlapCommands == {"toggleData", "toggleWiFi"}
ServiceOf(cmd) == IF cmd = "toggleData" THEN DATA_KEY_NAME ELSE WIFI_KEY_NAME
\* between the assignment of true and the assignment of false to the flag
WrapperPcs == {"action", "restart", "start"}
InsideWrapper(i) == inv[i].pc \in WrapperPcs

\* the flag left as it is on entry
FlagOnEntry_Unset(boot, f) == f

\* if (!this.bootstrap) return await wrapped();
\* this.bootstrap.ignoreUnexpectedShutdown = true;
FlagOnEntry(boot, f) == IF boot THEN TRUE ELSE f

\* finally { this.bootstrap.ignoreUnexpectedShutdown = false; }
FlagOnExit(boot, f) == IF boot THEN FALSE ELSE f

\* the command is called: it issues its state query and awaits it
CallToggle ==
    \E i \in Invocations, cmd \in OverlapCommands :
        /\ inv[i].pc = "idle"
        /\ inv' = [inv EXCEPT ![i] = [IdleInvocation EXCEPT !.pc = "read", !.cmd = cmd]]
        /\ UNCHANGED <<dev, api, emulator, bootstrap, flag, last, prev>>

\* the state query returns: on success the command enters
\* wrapBootstrapDisconnect, which sets the flag if there is a bootstrap and
\* calls wrapped(), which issues the write and awaits it
QueryReturns ==
    \E i \in Invocations, ok \in BOOLEAN :
        /\ inv[i].pc = "read"
        /\ IF ok
           THEN /\ flag' = FlagOnEntry(bootstrap, flag)
                /\ inv' = [j \in Invocations |->
                             IF j = i
                             THEN [inv[i] EXCEPT
                                     !.pc = "action",
                                     !.val = ~DevValue(dev, ServiceOf(inv[i].cmd)),
                                     !.overlapped = \E k \in Invocations \ {i} :
                                                        InsideWrapper(k)]
                             ELSE IF InsideWrapper(j)
                             THEN [inv[j] EXCEPT !.overlapped = TRUE]
                             ELSE inv[j]]
           ELSE /\ inv' = [inv EXCEPT ![i] = IdleInvocation]
                /\ UNCHANGED flag
        /\ UNCHANGED <<dev, api, emulator, bootstrap, last, prev>>

\* the wrapped write returns: on success the restart is issued (or, without a
\* bootstrap, the command returns); on failure the finally block runs
WrappedReturns ==
    \E i \in Invocations, ok \in BOOLEAN :
        /\ inv[i].pc = "action"
        /\ dev' = IF ok
                  THEN AdbEffect(dev, "setWifiAndData",
                                 [key |-> ServiceOf(inv[i].cmd), val |-> inv[i].val])
                  ELSE dev
        /\ IF ok /\ bootstrap
           THEN /\ inv' = [inv EXCEPT ![i].pc = "restart"]
                /\ UNCHANGED flag
           ELSE /\ inv' = [inv EXCEPT ![i] = IdleInvocation]
                /\ flag' = FlagOnExit(bootstrap, flag)
        /\ UNCHANGED <<api, emulator, bootstrap, last, prev>>

\* adb.restart() returns: on success bootstrap.start() is issued; on failure
\* the finally block runs
RestartReturns ==
    \E i \in Invocations, ok \in BOOLEAN :
        /\ inv[i].pc = "restart"
        /\ IF ok
           THEN /\ inv' = [inv EXCEPT ![i].pc = "start"]
                /\ UNCHANGED flag
           ELSE /\ inv' = [inv EXCEPT ![i] = IdleInvocation]
                /\ flag' = FlagOnExit(bootstrap, flag)
        /\ UNCHANGED <<dev, api, emulator, bootstrap, last, prev>>

\* bootstrap.start() returns, with or without failure: the finally block runs
StartReturns ==
    \E i \in Invocations :
        /\ inv[i].pc = "start"
        /\ inv' = [inv EXCEPT ![i] = IdleInvocation]
        /\ flag' = FlagOnExit(bootstrap, flag)
        /\ UNCHANGED <<dev, api, emulator, bootstrap, last, prev>>

NextOverlap ==
    \/ CallToggle
    \/ QueryReturns
    \/ WrappedReturns
    \/ RestartReturns
    \/ StartReturns

SpecOverlap == Init /\ [][NextOverlap]_vars

----------------------------------------------------------------------------
(* Claims about mobileGetConnectivity and mobileSetConnectivity *)

IsGet == last.name = "mobileGetConnectivity"
IsSet == last.name = "mobileSetConnectivity"
Provided(opts) == {k \in Services : ~isUndefined(opts[k])}

\* C1: a successful mobileGetConnectivity returns a mapping whose keys are
\* exactly the requested services (all three when services is omitted) and
\* whose value for each key is the boolean the device reports for it.
C1_GetReturnsRequestedStates ==
    (IsGet /\ Ok) =>
        /\ DOMAIN last.value = Requested(last.arg)
        /\ \A k \in Requested(last.arg) :
               last.value[k] = JsBool(DevValue(last.pre, k))

\* C2: during mobileGetConnectivity a state query is issued for a service
\* if and only if the service is requested.
C2_QueriesOnlyRequested ==
    IsGet => \A k \in Services :
                 Issued(QueryOp(k)) <=> k \in Requested(last.arg)

\* C3: mobileSetConnectivity with none of wifi, data, airplaneMode provided
\* fails with an invalid-argument error before any device-bridge call, and
\* the device is left as it was.
C3_NoOptionsIsInvalidArgument ==
    (IsSet /\ Provided(last.arg) = {}) =>
        /\ last.st = "InvalidArgumentError"
        /\ last.calls = <<>>
        /\ dev = last.pre

C3_Witness == IsSet /\ Provided(last.arg) = {} /\ ~Ok

\* C4: mobileSetConnectivity issues a write for a service only if the
\* service is provided and its requested value differs from the device's
\* current value.
C4_WritesOnlyDiffering ==
    IsSet => \A k \in Services :
                 Issued(WriteOp(k)) =>
                     /\ k \in Provided(last.arg)
                     /\ Boolean(last.arg[k]) # DevValue(last.pre, k)

\* C5: after a successful mobileSetConnectivity every provided service has
\* its requested value on the device; an airplane-mode change is made with
\* setAirplaneMode, followed by broadcastAirplaneMode below API level 30.
C5_SetReachesRequestedState ==
    (IsSet /\ Ok) =>
        /\ \A k \in Provided(last.arg) : DevValue(dev, k) = Boolean(last.arg[k])
        /\ (AIRPLANE_MODE_KEY_NAME \in Provided(last.arg)
            /\ Boolean(last.arg[AIRPLANE_MODE_KEY_NAME]) # last.pre.air)
           => /\ Issued("setAirplaneMode")
              /\ (api < 30 => Issued("broadcastAirplaneMode"))

----------------------------------------------------------------------------
(* Claims about getNetworkConnection and setNetworkConnection *)

IsGetNet == last.name = "getNetworkConnection"
IsSetNet == last.name = "setNetworkConnection"
\* C6: a successful setNetworkConnection(type) that directly follows a
\* successful setNetworkConnection(type) returns the same mask and issues no
\* state-changing write.
C6_SetNetworkConnectionIdempotent ==
    (IsSetNet /\ Ok /\ prev.repeated) =>
        /\ last.value = prev.value
        /\ NoWrites

\* C6 as amended: the same, for a mask without the airplane bit on a device
\* that was not in airplane mode before the first call, and for the mask
\* 0b001 on any device.
C6_IdempotentOutsideAirplaneMode ==
    (IsSetNet /\ Ok /\ prev.repeated
     /\ (\/ (~Bit(last.arg, AIRPLANE_MODE_MASK) /\ ~prev.air)
         \/ last.arg = AIRPLANE_MODE_MASK)) =>
        /\ last.value = prev.value
        /\ NoWrites

C6_Witness ==
    /\ IsSetNet /\ Ok /\ prev.repeated
    /\ ~prev.air
    /\ last.arg = WIFI_MASK + DATA_MASK
    /\ MaskOf(dev) = last.arg

\* C7: setNetworkConnection with the airplane bit requested issues no
\* setDataState, and no setDataState is ever issued while the device is in
\* airplane mode.
C7_NoDataWriteInAirplaneMode ==
    IsSetNet =>
        /\ Bit(last.arg, AIRPLANE_MODE_MASK) => ~Issued("setDataState")
        /\ \A i \in Calls("setDataState") : ~last.calls[i].air

C7_Witness ==
    /\ IsSetNet /\ Ok
    /\ Bit(last.arg, AIRPLANE_MODE_MASK) /\ Bit(last.arg, DATA_MASK)
    /\ ~last.pre.air /\ ~last.pre.data
    /\ Issued("setWifiState")

\* C8: getNetworkConnection on a device in airplane mode queries neither
\* Wi-Fi nor data and returns 0b001; otherwise it returns the Wi-Fi state in
\* bit 1 and the data state in bit 2, bit 0 clear.
C8_GetNetworkConnectionMask ==
    IsGetNet =>
        IF last.pre.air
        THEN /\ ~Issued("isWifiOn") /\ ~Issued("isDataOn")
             /\ Ok => last.value = AIRPLANE_MODE_MASK
        ELSE Ok => last.value = (IF last.pre.wifi THEN WIFI_MASK ELSE 0)
                                + (IF last.pre.data THEN DATA_MASK ELSE 0)

C8_Witness ==
    IsGetNet /\ Ok /\ last.pre.air /\ last.pre.wifi /\ last.pre.data

\* C9: setNetworkConnection(0b011) on a device in state 0b100 enables Wi-Fi,
\* disables data, writes nothing to airplane mode and returns 0b011.
C9_ExampleAsStated ==
    (IsSetNet /\ Ok /\ last.arg = 3
     /\ ~last.pre.air /\ ~last.pre.wifi /\ last.pre.data) =>
        /\ \E i \in Calls("setWifiState") : last.calls[i].arg = TRUE
        /\ \E i \in Calls("setDataState") : last.calls[i].arg = FALSE
        /\ ~Issued("setAirplaneMode") /\ ~Issued("broadcastAirplaneMode")
        /\ last.value = 3

\* C9 as amended: 0b011 is airplane mode and Wi-Fi.  On a device in state
\* 0b100 setNetworkConnection(0b011) enables airplane mode (with the broadcast
\* below API level 30) and Wi-Fi, issues no data write and returns 0b001.
C9_Example ==
    (IsSetNet /\ Ok /\ last.arg = 3
     /\ ~last.pre.air /\ ~last.pre.wifi /\ last.pre.data) =>
        /\ \E i \in Calls("setAirplaneMode") : last.calls[i].arg = TRUE
        /\ Issued("broadcastAirplaneMode") <=> api < 30
        /\ \E i \in Calls("setWifiState") : last.calls[i].arg = TRUE
        /\ ~Issued("setDataState")
        /\ dev.air /\ dev.wifi /\ dev.data
        /\ last.value = 1

C9_Witness ==
    /\ IsSetNet /\ Ok /\ last.arg = 3
    /\ ~last.pre.air /\ ~last.pre.wifi /\ last.pre.data

----------------------------------------------------------------------------
(* Claims about the geolocation commands *)

IsSetGeo == last.name = "setGeoLocation"
EpsilonLocation ==
    [latitude |-> GEO_EPSILON, longitude |-> GEO_EPSILON, altitude |-> GEO_EPSILON]
\* the calls of the last command that the device bridge rejected
Failed(op) == {i \in Calls(op) : last.calls[i].failed}

\* C10: setGeoLocation whose device-bridge write succeeds and whose read-back
\* fails succeeds with the all-epsilon location; a failed write fails the
\* command and no read-back is attempted.
C10_ReadBackFailureSwallowed ==
    IsSetGeo =>
        /\ (Failed("setGeoLocation") = {} /\ Failed("getGeoLocation") # {})
              => (Ok /\ last.value = EpsilonLocation)
        /\ Failed("setGeoLocation") # {}
              => (~Ok /\ ~Issued("getGeoLocation"))

C10_Witness ==
    IsSetGeo /\ Failed("setGeoLocation") = {} /\ Failed("getGeoLocation") # {} /\ Ok

----------------------------------------------------------------------------
(* Claims about toggleLocationServices *)

IsToggleLocation == last.name = "toggleLocationServices"
\* the calls by which the settings screen is driven
NoKeyNavigation ==
    /\ ~Issued("keyevent")
    /\ ~Issued("openSettingsActivity")
AnyFailed == \E i \in 1..Len(last.calls) : last.calls[i].failed

\* C11: on an emulator toggleLocationServices sends no key event and opens
\* no settings activity at any API level, and when it succeeds it has asked
\* for the GPS provider to be the opposite of what the providers list said;
\* on a real device of API level 15 or lower it fails, with
\* not-yet-implemented unless a device-bridge call failed first, and sends no
\* key event and opens no settings activity.
C11_EmulatorAndOldApiNeverNavigate ==
    IsToggleLocation =>
        /\ emulator =>
            /\ NoKeyNavigation
            /\ Ok => /\ \E i \in Calls("toggleGPSLocationProvider") :
                           last.calls[i].arg = ~last.pre.gps
                     /\ dev.gps = ~last.pre.gps
        /\ (~emulator /\ api <= 15) =>
            /\ NoKeyNavigation
            /\ ~Ok
            /\ ~AnyFailed => last.st = "NotYetImplementedError"
C11_Witness ==
    /\ IsToggleLocation
    /\ ~emulator
    /\ api = 15
    /\ last.st = "NotYetImplementedError"
    /\ Issued("getApiLevel")

----------------------------------------------------------------------------
(* Claims about wrapBootstrapDisconnect *)

FlagOp == "ignoreUnexpectedShutdown"
\* the assignments to the flag in the last command, by position
FlagSets(v) == {i \in Calls(FlagOp) : last.calls[i].arg = v}

\* C12: with a bootstrap attached the flag is false whenever a command has
\* finished, whatever failed in it: every assignment of true in the command is
\* followed by an assignment of false, and the flag is false between commands.
C12_FlagClearedOnEveryPath ==
    bootstrap =>
        /\ flag = FALSE
        /\ \A i \in FlagSets(TRUE) : \E j \in FlagSets(FALSE) : j > i
C12_Witness ==
    /\ bootstrap
    /\ ~Ok
    /\ Failed("restart") # {}
    /\ FlagSets(TRUE) # {}
    /\ flag = FALSE

----------------------------------------------------------------------------
(* Claims about failures of the device bridge *)

FailedCalls == {i \in 1..Len(last.calls) : last.calls[i].failed}
\* the read-back of setGeoLocation
IsReadBack(i) ==
    /\ IsSetGeo
    /\ last.calls[i].op = "getGeoLocation"
\* the calls of toggleSetting's pop-up handling: the two waits and the key
\* events between them
IsPopUpHandling(i) ==
    /\ IsToggleLocation
    /\ last.calls[i].op \in {"waitForNotActivity", "keyevent"}
    /\ \E j \in Calls("waitForNotActivity") : j <= i

\* C13 as stated: the read-back of setGeoLocation is the only device-bridge
\* call whose failure a command survives.
C13_OnlyReadBackSwallowed ==
    (\E i \in FailedCalls : ~IsReadBack(i)) => ~Ok

\* C13: in every command a failed device-bridge call fails the command,
\* except the read-back of setGeoLocation and the calls of toggleSetting's
\* pop-up handling (its two waits and the two key events between them).
C13_FailuresPropagate ==
    (\E i \in FailedCalls : ~IsReadBack(i) /\ ~IsPopUpHandling(i)) => ~Ok
C13_Witness ==
    /\ IsToggleLocation
    /\ Failed("back") # {}
    /\ Failed("waitForNotActivity") # {}
    /\ ~Ok

----------------------------------------------------------------------------
(* Claims about the order and the result of setNetworkConnection *)

\* the airplane bit of the requested mask, and whether the device differs
WantsAirplaneMode == last.arg % 2 = 1
AirplaneModeDiffers == WantsAirplaneMode # last.pre.air
WifiDataWrites == Calls("setWifiState") \cup Calls("setDataState")
\* a call of the last command that was made with this argument and completed
Completed(i, op, arg) ==
    /\ last.calls[i].op = op
    /\ last.calls[i].arg = arg
    /\ ~last.calls[i].failed

\* C14: in setNetworkConnection, when the requested airplane bit differs from
\* the device's airplane mode, setAirplaneMode (and then, below API level 30,
\* broadcastAirplaneMode) has completed before any Wi-Fi or data write is
\* issued, and a successful call has issued them; when the bit matches,
\* neither is issued; at API level 30 and above no broadcast is issued.
C14_AirplaneModeFirst ==
    IsSetNet =>
        /\ AirplaneModeDiffers =>
            /\ \A j \in WifiDataWrites :
                 \E i \in 1..(j - 1) :
                    /\ Completed(i, "setAirplaneMode", WantsAirplaneMode)
                    /\ api < 30 =>
                         \E b \in (i + 1)..(j - 1) :
                            Completed(b, "broadcastAirplaneMode", WantsAirplaneMode)
            /\ \A b \in Calls("broadcastAirplaneMode") :
                 \E i \in 1..(b - 1) :
                    Completed(i, "setAirplaneMode", WantsAirplaneMode)
            /\ Ok => /\ Issued("setAirplaneMode")
                     /\ api < 30 => Issued("broadcastAirplaneMode")
        /\ ~AirplaneModeDiffers =>
            /\ ~Issued("setAirplaneMode")
            /\ ~Issued("broadcastAirplaneMode")
        /\ api >= 30 => ~Issued("broadcastAirplaneMode")
C14_Witness ==
    /\ IsSetNet
    /\ AirplaneModeDiffers
    /\ api < 30
    /\ Ok
    /\ Issued("broadcastAirplaneMode")
    /\ Issued("setWifiState")

\* the mask getNetworkConnection reads at the start of the last command: in
\* airplane mode the Wi-Fi and data states are not read
StartMask == IF last.pre.air THEN AIRPLANE_MODE_MASK ELSE MaskOf(last.pre)
WantsWifi == (last.arg \div WIFI_MASK) % 2 = 1
WantsData == (last.arg \div DATA_MASK) % 2 = 1
\* neither the Wi-Fi bit nor the data bit of the request differs from StartMask
NeedsNoWifiDataChange ==
    /\ WantsWifi = ((StartMask \div WIFI_MASK) % 2 = 1)
    /\ WantsData = ((StartMask \div DATA_MASK) % 2 = 1)

\* C15: setNetworkConnection whose requested Wi-Fi and data bits equal those
\* of the mask read at its start issues no Wi-Fi write and no data write, and
\* returns that mask with the Wi-Fi and data bits as read and the airplane bit
\* set exactly when the device is in airplane mode at the final read.
C15_EarlyReturn ==
    (IsSetNet /\ NeedsNoWifiDataChange) =>
        /\ WifiDataWrites = {}
        /\ Ok =>
            /\ last.value = (StartMask \div 2) * 2
                            + (IF dev.air THEN AIRPLANE_MODE_MASK ELSE 0)
            /\ last.calls[Len(last.calls)].op = "isAirplaneModeOn"
C15_Witness ==
    /\ IsSetNet
    /\ NeedsNoWifiDataChange
    /\ AirplaneModeDiffers
    /\ Ok
    /\ last.value = AIRPLANE_MODE_MASK + DATA_MASK

----------------------------------------------------------------------------
(* Claims about the order of wrapBootstrapDisconnect *)

BootstrapOps == {"restart", "bootstrap.start", FlagOp}
\* the assignment to the flag that precedes position i most closely, 0 if none
FlagSetBefore(i) ==
    IF \E f \in Calls(FlagOp) : f < i
    THEN CHOOSE f \in Calls(FlagOp) :
            /\ f < i
            /\ \A g \in Calls(FlagOp) : g < i => g <= f
    ELSE 0
\* position i lies in a run of the wrapper: the flag was set to true before
\* it and not cleared since
InWrapper(i) ==
    /\ FlagSetBefore(i) # 0
    /\ last.calls[FlagSetBefore(i)].arg = TRUE

\* C16: without a bootstrap a command makes no restart, no bootstrap start
\* and no assignment to the flag.  With a bootstrap, every wrapped write is
\* made after the flag is set and before it is cleared; a restart is made only
\* in the wrapper, after an action none of whose calls failed; a bootstrap
\* start is made only directly after a restart that did not fail; and the flag
\* is cleared directly after the bootstrap start, the failed restart or the
\* failed call of the action.
C16_WrapperOrder ==
    /\ ~bootstrap =>
        /\ \A i \in 1..Len(last.calls) : last.calls[i].op \notin BootstrapOps
        /\ flag = FALSE
    /\ bootstrap =>
        \A i \in 1..Len(last.calls) :
            LET e == last.calls[i]
            IN  /\ e.op \in WriteOps => InWrapper(i) /\ e.flag
                /\ e.op = "restart" =>
                    /\ InWrapper(i)
                    /\ e.flag
                    /\ \A k \in (FlagSetBefore(i) + 1)..(i - 1) :
                          /\ ~last.calls[k].failed
                          /\ last.calls[k].op \notin BootstrapOps
                /\ e.op = "bootstrap.start" =>
                    /\ e.flag
                    /\ i > 1
                    /\ last.calls[i - 1].op = "restart"
                    /\ ~last.calls[i - 1].failed
                /\ (e.op = FlagOp /\ e.arg = TRUE) =>
                    /\ \E j \in FlagSets(FALSE) : j > i
                    /\ ~InWrapper(i)
                /\ (e.op = FlagOp /\ e.arg = FALSE) =>
                    /\ InWrapper(i)
                    /\ \/ last.calls[i - 1].op = "bootstrap.start"
                       \/ last.calls[i - 1].failed
C16_Witness ==
    /\ bootstrap
    /\ last.name = "toggleData"
    /\ Ok
    /\ \E i \in Calls("setWifiAndData") :
          /\ Completed(i - 1, FlagOp, TRUE)
          /\ last.calls[i + 1].op = "restart"
          /\ last.calls[i + 2].op = "bootstrap.start"
          /\ Completed(i + 3, FlagOp, FALSE)

----------------------------------------------------------------------------
(* Claims about the toggles *)

IsToggle == last.name \in Toggles
\* the service a toggle is for
ToggledService ==
    CASE last.name = "toggleData" -> DATA_KEY_NAME
      [] last.name = "toggleWiFi" -> WIFI_KEY_NAME
      [] OTHER                    -> AIRPLANE_MODE_KEY_NAME
QueryOps == {"isAirplaneModeOn", "isWifiOn", "isDataOn"}
\* the inverse of what the device said of the toggled service
Inverted == ~DevValue(last.pre, ToggledService)
\* the write a toggle makes for its service
ToggleWriteOp ==
    IF last.name = "toggleFlightMode" THEN "setAirplaneMode" ELSE "setWifiAndData"
ToggleWriteArg ==
    IF last.name = "toggleFlightMode"
    THEN Inverted
    ELSE [key |-> ToggledService, val |-> Inverted]
\* the bit of a service in a connection mask
MaskBit(k) ==
    CASE k = WIFI_KEY_NAME -> WIFI_MASK
      [] k = DATA_KEY_NAME -> DATA_MASK
      [] OTHER             -> AIRPLANE_MODE_MASK

\* C17: a toggle reads the state of its own service and of no other, and
\* writes the inverse of what it read for that service and nothing for the
\* others; toggleFlightMode broadcasts the inverse after setAirplaneMode
\* exactly when the API level is below 30.  A successful toggle leaves the
\* device as it was but for the inverted service, and the second of two
\* successful toggles in a row leaves the service as it was before the first.
C17_TogglesInvert ==
    IsToggle =>
        /\ \A i \in 1..Len(last.calls) :
              LET e == last.calls[i]
              IN  /\ e.op \in QueryOps => e.op = QueryOp(ToggledService) /\ i = 1
                  /\ e.op \in WriteOps \ {"broadcastAirplaneMode"} =>
                        /\ e.op = ToggleWriteOp
                        /\ e.arg = ToggleWriteArg
                  /\ e.op = "broadcastAirplaneMode" =>
                        /\ last.name = "toggleFlightMode"
                        /\ api < 30
                        /\ e.arg = Inverted
                        /\ \E k \in 1..(i - 1) :
                              Completed(k, "setAirplaneMode", Inverted)
        /\ Ok =>
            /\ last.calls[1].op = QueryOp(ToggledService)
            /\ \E i \in 1..Len(last.calls) :
                  Completed(i, ToggleWriteOp, ToggleWriteArg)
            /\ (last.name = "toggleFlightMode" /\ api < 30)
                  => Issued("broadcastAirplaneMode")
            /\ DevValue(dev, ToggledService) = Inverted
            /\ \A k \in Services \ {ToggledService} :
                  DevValue(dev, k) = DevValue(last.pre, k)
            /\ prev.repeated =>
                  DevValue(dev, ToggledService)
                     = ((prev.first \div MaskBit(ToggledService)) % 2 = 1)
C17_Witness ==
    /\ last.name = "toggleWiFi"
    /\ Ok
    /\ prev.repeated
    /\ dev.wifi
    /\ Issued("setWifiAndData")

----------------------------------------------------------------------------
(* Claims about the mask setNetworkConnection returns *)

\* what getNetworkConnection returns on device d: in airplane mode the Wi-Fi
\* and data states are not read
MaskRead(d) == IF d.air THEN AIRPLANE_MODE_MASK ELSE MaskOf(d)

\* C18 as stated: the mask a successful setNetworkConnection returns is the
\* mask getNetworkConnection returns on the device it leaves, on every path.
C18_ReturnsWhatIsReadNext ==
    (IsSetNet /\ Ok) => last.value = MaskRead(dev)

\* C18: the mask a successful setNetworkConnection returns is the mask
\* getNetworkConnection returns on the device it leaves, when the call had
\* Wi-Fi or data to change, and on the early-return path when it had no
\* airplane mode to change either.
C18_ReturnsWhatIsReadNextUnlessEarly ==
    (IsSetNet /\ Ok /\ (~NeedsNoWifiDataChange \/ ~AirplaneModeDiffers)) =>
        last.value = MaskRead(dev)
C18_Witness ==
    /\ IsSetNet
    /\ Ok
    /\ ~NeedsNoWifiDataChange
    /\ AirplaneModeDiffers
    /\ dev.air
    /\ dev.wifi
    /\ last.value = AIRPLANE_MODE_MASK

----------------------------------------------------------------------------
(* Claims about overlapping invocations of wrapBootstrapDisconnect *)

\* C19 as stated: with a bootstrap the flag is true whenever an invocation is
\* between setting and clearing it, whether or not invocations overlap.
C19_FlagHeldWhileWrapped ==
    bootstrap => \A i \in Invocations : InsideWrapper(i) => flag

\* C19: with a bootstrap the flag is true whenever an invocation is between
\* setting and clearing it (its wrapped action, restart or bootstrap start in
\* progress), provided no other invocation has been between setting and
\* clearing it at any moment since this one set it.
C19_FlagHeldWithoutOverlap ==
    bootstrap =>
        \A i \in Invocations : (InsideWrapper(i) /\ ~inv[i].overlapped) => flag
C19_Witness ==
    /\ bootstrap
    /\ inv[1].pc = "restart"
    /\ ~inv[1].overlapped
    /\ inv[2].pc = "read"
    /\ flag

----------------------------------------------------------------------------
(* Claims about getGeoLocation *)

IsGetGeo == last.name = "getGeoLocation"
\* v is what the claim as stated gives for the device's string s: the
\* sentinel when s does not parse, the parsed number otherwise
SentinelIfUnparsable(v, s) ==
    v = IF parseFloat(s).nan THEN GEO_EPSILON ELSE parseFloat(s)
\* the same, with the sentinel for a string that parses to zero as well
SentinelIfUnparsableOrZero(v, s) ==
    v = IF parseFloat(s).nan \/ parseFloat(s).mant = 0
        THEN GEO_EPSILON
        ELSE parseFloat(s)

\* C20 as stated: each coordinate getGeoLocation returns is the sentinel when
\* the device's value does not parse and the parsed number otherwise, zero
\* included.
C20_SentinelOnlyForUnparsable ==
    (IsGetGeo /\ Ok) =>
        /\ SentinelIfUnparsable(last.value.latitude, last.pre.geo.latitude)
        /\ SentinelIfUnparsable(last.value.longitude, last.pre.geo.longitude)
        /\ SentinelIfUnparsable(last.value.altitude, last.pre.geo.altitude)

\* C20: each coordinate getGeoLocation returns is, independently of the other
\* two, the sentinel when the device's value does not parse or parses to zero,
\* and the parsed number otherwise.
C20_SentinelForUnparsableOrZero ==
    (IsGetGeo /\ Ok) =>
        /\ SentinelIfUnparsableOrZero(last.value.latitude, last.pre.geo.latitude)
        /\ SentinelIfUnparsableOrZero(last.value.longitude, last.pre.geo.longitude)
        /\ SentinelIfUnparsableOrZero(last.value.altitude, last.pre.geo.altitude)
C20_Witness ==
    /\ IsGetGeo
    /\ Ok
    /\ last.pre.geo = [latitude |-> <<"0">>, longitude |-> <<"1", ".", "5">>,
                       altitude |-> <<"x">>]
    /\ last.value = [latitude |-> GEO_EPSILON, longitude |-> Num(FALSE, 15, 1),
                     altitude |-> GEO_EPSILON]

====
